---- MODULE Spec2Model ----
(***************************************************************************)
(* A model of the PdfRearranger component (src/PdfRearrange.jsx).          *)
(*                                                                         *)
(* The component keeps its session in React state cells and changes them   *)
(* from event handlers.  Synchronous handlers (drop, click, rotate, crop,  *)
(* zoom) run to completion on the state of the latest render.  The two     *)
(* asynchronous handlers (file upload, export) are suspended at every      *)
(* await; other events run while they are suspended.  An asynchronous      *)
(* handler keeps the values its closure captured when it was invoked.      *)
(*                                                                         *)
(* JavaScript values are tagged tuples, so that a number, NaN, undefined   *)
(* (an array hole or an index past the end), null and an image data URL    *)
(* are comparable with one another.                                        *)
(***************************************************************************)
EXTENDS Integers, Sequences, FiniteSets, TLC

\* ------------------------------------------------------------------ bounds

\* The files the user can choose: file f is a PDF of f pages, f \in 1..MaxPages.
MaxPages == 3
\* File choices (handleFileUpload invocations) per session.
MaxLoads == 2
\* Export clicks (handleRearrange invocations) per session.
MaxExports == 1
\* Drops with a destination, rotate, crop and zoom clicks per session
\* (the variable edits counts them).
MaxEdits == 2

\* ------------------------------------------------------- JavaScript values

Null == <<"null">>
Undefined == <<"undefined">>
NaN == <<"NaN">>
Num(n) == <<"num", n>>
IsNum(v) == v[1] = "num"
Val(v) == v[2]

\* useState(null) of pdfDoc and of selectedPage.
NoDoc == 0
NoPage == -1

\* The data URL of a rendered page: page number k (1-based, as getPage takes
\* it) of file f, cropped c times.
Png(f, k, c) == <<"png", f, k, c>>
IsPng(v) == v[1] = "png"

Files == 1..MaxPages
\* pdfDoc.getPageCount()
PageCount(f) == f

\* a[p] of a JavaScript array held as a sequence (p is 0-based).
At(a, p) == IF p + 1 \in DOMAIN a THEN a[p + 1] ELSE Undefined

\* a[p] = v on a copy of a JavaScript array: a write past the end extends
\* the array and leaves holes.
SetAt(a, p, v) ==
  [k \in 1..(IF p + 1 > Len(a) THEN p + 1 ELSE Len(a)) |->
     IF k = p + 1 THEN v ELSE IF k <= Len(a) THEN a[k] ELSE Undefined]

\* Array(n).fill(v)
Fill(n, v) == [k \in 1..n |-> v]

\* Array.from({ length: n }, (_, i) => i)
Identity(n) == [k \in 1..n |-> k - 1]

\* x % m of JavaScript on integers: the result has the sign of the dividend.
JsRem(x, m) == IF x >= 0 THEN x % m ELSE -((-x) % m)

\* Mutant of AddAngle: the sum is stored without the % 360.
AddAngleNoWrap(v, angle) == IF IsNum(v) THEN Num(Val(v) + angle) ELSE NaN

\* (v + angle) % 360 of JavaScript: undefined + n and NaN + n are NaN.
AddAngle(v, angle) == IF IsNum(v) THEN Num(JsRem(Val(v) + angle, 360)) ELSE NaN

\* v * (Math.PI / 180): the multiple of pi, kept as the fraction v / 180.
Radians(v) == IF IsNum(v) THEN <<"pi", Val(v), 180>> ELSE NaN

\* a || b
OrElse(a, b) == IF a = Null \/ a = Undefined THEN b ELSE a

\* ------------------------------------------------------------------- state

VARIABLES
  pdfDoc,          \* NoDoc, or the file the loaded PDFDocument was parsed from
  pages,           \* the Page List: page identifiers in display order
  pageImages,      \* the raster cache, by page identifier
  selectedPage,    \* NoPage, or the selected page identifier
  rotationAngles,  \* by page identifier
  croppedImages,   \* crop overrides, by page identifier
  zoomLevel,       \* in tenths
  loads,           \* the handleFileUpload invocations, in the order of the choices
  exports,         \* the handleRearrange invocations, in the order of the clicks
  downloads,       \* the documents offered for download (link.click()), in order
  edits            \* edit events so far

session == <<pdfDoc, pages, pageImages, selectedPage, rotationAngles, croppedImages, zoomLevel>>
vars == <<pdfDoc, pages, pageImages, selectedPage, rotationAngles, croppedImages, zoomLevel,
          loads, exports, downloads, edits>>

\* zoomLevel is counted in tenths: useState(1) and the steps of 0.1.
InitialZoom == 10
ZoomStep == 1

Init ==
  /\ pdfDoc = NoDoc
  /\ pages = <<>>
  /\ pageImages = <<>>
  /\ selectedPage = NoPage
  /\ rotationAngles = <<>>
  /\ croppedImages = <<>>
  /\ zoomLevel = InitialZoom
  /\ loads = <<>>
  /\ exports = <<>>
  /\ downloads = <<>>
  /\ edits = 0

\* ------------------------------------------------- handleFileUpload (18-33)

Load(f) == [file |-> f, pc |-> "parsing", wrote |-> FALSE]

LoadFailed(l) == l.pc \in {"parseFailed", "renderFailed"}
LoadInFlight(l) == l.pc \in {"parsing", "rendering"}

\* onChange of the file input with a file: the handler runs up to its first
\* await (line 22) and touches no state.
FileChosen(f) ==
  /\ Len(loads) < MaxLoads
  /\ loads' = Append(loads, Load(f))
  /\ UNCHANGED <<session, exports, downloads, edits>>

\* onChange with no file (line 20).
NoFileChosen == UNCHANGED vars

\* file.arrayBuffer() or PDFDocument.load() rejects: the catch of line 30.
ParseFailed(k) ==
  /\ loads[k].pc = "parsing"
  /\ loads' = [loads EXCEPT ![k].pc = "parseFailed"]
  /\ UNCHANGED <<session, exports, downloads, edits>>

\* PDFDocument.load() resolves: lines 24-28 run without an await between
\* them, then renderPdfPages runs up to its first await (line 38).
ParseDone(k) ==
  LET pageCount == PageCount(loads[k].file) IN
  /\ loads[k].pc = "parsing"
  /\ pdfDoc' = loads[k].file
  /\ pages' = Identity(pageCount)
  /\ rotationAngles' = Fill(pageCount, Num(0))
  /\ croppedImages' = Fill(pageCount, Null)
  /\ loads' = [loads EXCEPT ![k].pc = "rendering", ![k].wrote = TRUE]
  /\ UNCHANGED <<pageImages, selectedPage, zoomLevel, exports, downloads, edits>>

\* ---------------------------------------------------- renderPdfPages (35-57)

\* images after the loop of lines 41-51: one data URL per page, in
\* page-number order.
RenderedImages(f) == [k \in 1..PageCount(f) |-> Png(f, k, 0)]

\* getDocument, getPage or render rejects, for the document or for any of
\* its pages: the catch of line 54.  The rejection comes back to
\* handleFileUpload as a normal return.
RenderFailed(k) ==
  /\ loads[k].pc = "rendering"
  /\ loads' = [loads EXCEPT ![k].pc = "renderFailed"]
  /\ UNCHANGED <<session, exports, downloads, edits>>

\* getDocument and every getPage and render resolve.  The awaits of lines
\* 38-49 touch only the locals of the invocation, so the steps between them
\* are one step here; setPageImages (line 53) runs in the continuation of
\* the last one.
RenderDone(k) ==
  /\ loads[k].pc = "rendering"
  /\ pageImages' = RenderedImages(loads[k].file)
  /\ loads' = [loads EXCEPT ![k].pc = "done"]
  /\ UNCHANGED <<pdfDoc, pages, selectedPage, rotationAngles, croppedImages, zoomLevel,
                 exports, downloads, edits>>

\* --------------------------------------------------- handleRearrange (59-95)

\* The handler reads pages, pageImages, croppedImages and rotationAngles
\* through its closure: the values of the render in which it was clicked.
Export ==
  [pages |-> pages, pageImages |-> pageImages, croppedImages |-> croppedImages,
   rotationAngles |-> rotationAngles, pc |-> "running"]

\* An invocation that has returned: its closure is unreachable.
Returned(how) ==
  [pages |-> <<>>, pageImages |-> <<>>, croppedImages |-> <<>>,
   rotationAngles |-> <<>>, pc |-> how]

\* croppedImages[pageIndex] || pageImages[pageIndex] for the page at position i.
ImageUrl(e, i) ==
  LET pageIndex == e.pages[i + 1] IN
  OrElse(At(e.croppedImages, pageIndex), At(e.pageImages, pageIndex))

\* Mutant of DrawnPage: the image and the angle of identifier i, not of the
\* identifier at position i.
DrawnPageByPosition(e, i) ==
  [image |-> OrElse(At(e.croppedImages, i), At(e.pageImages, i)),
   rotate |-> Radians(At(e.rotationAngles, i))]

\* The page added for position i: the embedded image, drawn with the angle
\* of the page identifier at position i (lines 65-80).
DrawnPage(e, i) ==
  LET pageIndex == e.pages[i + 1] IN
  [image |-> ImageUrl(e, i), rotate |-> Radians(At(e.rotationAngles, pageIndex))]

\* newPdfDoc after n turns of the loop of lines 64-81.
AddedPages(e, n) == [k \in 1..n |-> DrawnPage(e, k - 1)]

\* An image URL that is no data URL (undefined) is fetched as a relative
\* URL and is no PNG: embedPng throws.
Embeddable(e, i) == IsPng(ImageUrl(e, i))

\* Mutant of AfterCatch: the catch offers what was built so far.
AfterCatchOffers(offered, doc) == Append(offered, doc)

\* The catch of line 92 with newPdfDoc = doc: the error is logged, nothing
\* is offered for download.
AfterCatch(offered, doc) == offered

\* Lines 84-91 with the saved newPdfDoc = doc: it is offered for download.
AfterSave(offered, doc) == Append(offered, doc)

\* Click on the export button, which is disabled without a document
\* (line 144; line 60 guards again).  The handler runs up to its first await.
ExportClicked ==
  /\ pdfDoc # NoDoc
  /\ Len(exports) < MaxExports
  /\ exports' = Append(exports, Export)
  /\ UNCHANGED <<session, loads, downloads, edits>>

\* The handler throws after n pages were added: create, fetch, arrayBuffer
\* or embedPng of page n + 1 fails, or save does (n = pages.length).  The
\* awaits of lines 63-83 touch only the closure and the new document, so
\* the steps up to the throw are one step here.
ExportFailed(x, n) ==
  LET e == exports[x] IN
  /\ e.pc = "running"
  /\ n <= Len(e.pages)
  /\ \A i \in 0..(n - 1) : Embeddable(e, i)
  /\ exports' = [exports EXCEPT ![x] = Returned("failed")]
  /\ downloads' = AfterCatch(downloads, AddedPages(e, n))
  /\ UNCHANGED <<session, loads, edits>>

\* Mutant of ExportSaved: the pages are built from the state cells as they
\* are when the document is saved, not from the closure of the click.
ExportSavedLive(x) ==
  /\ exports[x].pc = "running"
  /\ \A i \in 0..(Len(pages) - 1) : Embeddable(Export, i)
  /\ exports' = [exports EXCEPT ![x] = Returned("saved")]
  /\ downloads' = AfterSave(downloads, AddedPages(Export, Len(pages)))
  /\ UNCHANGED <<session, loads, edits>>

\* Every page is added and save() resolves.
ExportSaved(x) ==
  LET e == exports[x] IN
  /\ e.pc = "running"
  /\ \A i \in 0..(Len(e.pages) - 1) : Embeddable(e, i)
  /\ exports' = [exports EXCEPT ![x] = Returned("saved")]
  /\ downloads' = AfterSave(downloads, AddedPages(e, Len(e.pages)))
  /\ UNCHANGED <<session, loads, edits>>

\* --------------------------------------------------------- onDragEnd (97-103)

\* result.destination of a drop outside every drop target.
NoDestination == -1

\* The positions the drag-and-drop library reports: indices of the rendered
\* Draggables, one per entry of pages (lines 155-159).
Positions == 0..(Len(pages) - 1)

\* Mutant of Removed: the entry is copied, not taken out.
RemovedNone(a, at) == a

\* a.splice(at, 1) on a copy: the array without the entry at position at.
Removed(a, at) == [k \in 1..(Len(a) - 1) |-> IF k <= at THEN a[k] ELSE a[k + 1]]

\* Mutant of Inserted: the entry is pushed to the end.
InsertedLast(a, at, v) == Append(a, v)

\* a.splice(at, 0, v) on a copy: v inserted so that it sits at position at.
Inserted(a, at, v) ==
  [k \in 1..(Len(a) + 1) |-> IF k <= at THEN a[k] ELSE IF k = at + 1 THEN v ELSE a[k - 1]]

\* Mutant of Reorder: the entries at the two positions are exchanged.
ReorderSwap(a, from, to) ==
  [k \in DOMAIN a |-> IF k = to + 1 THEN a[from + 1] ELSE IF k = from + 1 THEN a[to + 1] ELSE a[k]]

\* reorderedPages of lines 99-101.
Reorder(a, from, to) == Inserted(Removed(a, from), to, a[from + 1])

\* Mutant of DragEnd: a drop without a destination moves the entry to the
\* first position.
DragEndAnyway(a, from, destination) ==
  Reorder(a, from, IF destination = NoDestination THEN 0 ELSE destination)

\* The value onDragEnd leaves in pages.
DragEnd(a, from, destination) ==
  IF destination = NoDestination THEN a ELSE Reorder(a, from, destination)

\* Mutant of OnDragEnd: the selection stays with the position, not with the
\* identifier: after the drop the identifier now at the position of the
\* selected one is selected.
OnDragEndKeepsPosition(from, destination) ==
  /\ destination # NoDestination => edits < MaxEdits
  /\ pages' = DragEnd(pages, from, destination)
  /\ selectedPage' = IF selectedPage = NoPage THEN NoPage
                     ELSE pages'[CHOOSE k \in DOMAIN pages : pages[k] = selectedPage]
  /\ edits' = IF destination = NoDestination THEN edits ELSE edits + 1
  /\ UNCHANGED <<pdfDoc, pageImages, rotationAngles, croppedImages, zoomLevel,
                 loads, exports, downloads>>

OnDragEnd(from, destination) ==
  /\ destination # NoDestination => edits < MaxEdits
  /\ pages' = DragEnd(pages, from, destination)
  /\ edits' = IF destination = NoDestination THEN edits ELSE edits + 1
  /\ UNCHANGED <<pdfDoc, pageImages, selectedPage, rotationAngles, croppedImages, zoomLevel,
                 loads, exports, downloads>>

\* ------------------------------------------------- setSelectedPage (line 166)

\* Click on the Draggable of page identifier p: one is rendered per entry
\* of pages.
PageClicked(p) ==
  /\ \E k \in DOMAIN pages : pages[k] = p
  /\ selectedPage' = p
  /\ UNCHANGED <<pdfDoc, pages, pageImages, rotationAngles, croppedImages, zoomLevel,
                 loads, exports, downloads, edits>>

\* Mutant of ControlsRendered: the controls are rendered without a selection.
ControlsRenderedAlways == TRUE

\* The transform controls (Cropper, rotate, crop and zoom buttons) are
\* rendered only with a selection (line 184).
ControlsRendered == selectedPage # NoPage

\* --------------------------------------------- rotateSelectedPage (105-111)

\* Mutant of RotatedAngles: the angle is added to the entry of every page.
RotatedAnglesAll(sel, angles, angle) == [k \in DOMAIN angles |-> AddAngle(angles[k], angle)]

\* The value rotateSelectedPage(angle) leaves in rotationAngles.
RotatedAngles(sel, angles, angle) ==
  IF sel = NoPage THEN angles ELSE SetAt(angles, sel, AddAngle(At(angles, sel), angle))

RotateClicked(angle) ==
  /\ ControlsRendered
  /\ edits < MaxEdits
  /\ rotationAngles' = RotatedAngles(selectedPage, rotationAngles, angle)
  /\ edits' = edits + 1
  /\ UNCHANGED <<pdfDoc, pages, pageImages, selectedPage, croppedImages, zoomLevel,
                 loads, exports, downloads>>

\* ----------------------------------------------------- handleCrop (113-124)

\* The Cropper shows pageImages[selectedPage] (line 187): it is taken to
\* have loaded the src of the latest render when Crop is clicked.
CropperSrc == At(pageImages, selectedPage)

\* cropper.getCroppedCanvas().toDataURL(): the shown image, cropped once more.
CroppedDataUrl(src) == Png(src[2], src[3], src[4] + 1)

\* Mutant of WithCrop: the data URL is written to every entry.
WithCropAll(images, sel, url) == [k \in DOMAIN images |-> url]

\* Mutant of WithCrop: an entry that holds a cropped image is kept.
WithCropOnce(images, sel, url) ==
  IF IsPng(At(images, sel)) /\ At(images, sel)[4] > 0 THEN images ELSE SetAt(images, sel, url)

\* newCroppedImages and newPageImages of lines 116-122.
WithCrop(images, sel, url) == SetAt(images, sel, url)

\* A Cropper without an image is not ready and getCroppedCanvas() returns
\* null: line 115 throws and the handler changes nothing.
CropClicked ==
  /\ ControlsRendered
  /\ IF IsPng(CropperSrc)
       THEN /\ edits < MaxEdits
            /\ croppedImages' = WithCrop(croppedImages, selectedPage, CroppedDataUrl(CropperSrc))
            /\ pageImages' = WithCrop(pageImages, selectedPage, CroppedDataUrl(CropperSrc))
            /\ edits' = edits + 1
       ELSE UNCHANGED <<croppedImages, pageImages, edits>>
  /\ UNCHANGED <<pdfDoc, pages, selectedPage, rotationAngles, zoomLevel, loads, exports, downloads>>

\* ------------------------------------------------ zoomIn, zoomOut (126-132)

ZoomClicked(step) ==
  /\ ControlsRendered
  /\ edits < MaxEdits
  /\ zoomLevel' = zoomLevel + step
  /\ edits' = edits + 1
  /\ UNCHANGED <<pdfDoc, pages, pageImages, selectedPage, rotationAngles, croppedImages,
                 loads, exports, downloads>>

\* ------------------------------------------------------------ specification

Next ==
  \/ \E f \in Files : FileChosen(f)
  \/ NoFileChosen
  \/ \E k \in DOMAIN loads : ParseFailed(k)
  \/ \E k \in DOMAIN loads : ParseDone(k)
  \/ \E k \in DOMAIN loads : RenderFailed(k)
  \/ \E k \in DOMAIN loads : RenderDone(k)
  \/ ExportClicked
  \/ \E x \in DOMAIN exports : \E n \in 0..MaxPages : ExportFailed(x, n)
  \/ \E x \in DOMAIN exports : ExportSaved(x)
  \/ \E from \in Positions : \E to \in Positions \cup {NoDestination} : OnDragEnd(from, to)
  \/ \E p \in 0..(MaxPages - 1) : PageClicked(p)
  \/ \E angle \in {90, -90} : RotateClicked(angle)
  \/ CropClicked
  \/ \E step \in {ZoomStep, -ZoomStep} : ZoomClicked(step)

Spec == Init /\ [][Next]_vars

\* The session right after a successful load of file f with no other load
\* in flight: what FileChosen(f), ParseDone(1), RenderDone(1) lead to from Init.
Loaded(f) ==
  /\ pdfDoc = f
  /\ pages = Identity(PageCount(f))
  /\ pageImages = RenderedImages(f)
  /\ selectedPage = NoPage
  /\ rotationAngles = Fill(PageCount(f), Num(0))
  /\ croppedImages = Fill(PageCount(f), Null)
  /\ zoomLevel = InitialZoom
  /\ loads = <<[file |-> f, pc |-> "done", wrote |-> TRUE]>>
  /\ exports = <<>>
  /\ downloads = <<>>
  /\ edits = 0

EditInit == \E f \in Files : Loaded(f)

\* The synchronous handlers alone.
EditNext ==
  \/ \E from \in Positions : \E to \in Positions \cup {NoDestination} : OnDragEnd(from, to)
  \/ \E p \in 0..(MaxPages - 1) : PageClicked(p)
  \/ \E angle \in {90, -90} : RotateClicked(angle)
  \/ CropClicked
  \/ \E step \in {ZoomStep, -ZoomStep} : ZoomClicked(step)

\* The editing of one loaded document, with no load or export in flight.
EditSpec == EditInit /\ [][EditNext]_vars

\* ------------------------------------------------------------------- claims

\* The load that goes from pc from to pc to in this step, if any.
LoadSteps(k, from, to) == loads[k].pc = from /\ loads'[k].pc = to

\* The export that goes from running to pc to in this step, if any.
ExportSteps(x, to) == exports[x].pc = "running" /\ exports'[x].pc = to

\* C1: once a document is loaded, and through every reorder, rotate, crop,
\* zoom and export, the Page List is a permutation of 0..pageCount-1 of the
\* loaded document: its length is the page count and every identifier
\* occurs in it exactly once.
C1_PageListIsPermutation ==
  pdfDoc # NoDoc =>
    /\ Len(pages) = PageCount(pdfDoc)
    /\ \A p \in 0..(PageCount(pdfDoc) - 1) :
         Cardinality({k \in DOMAIN pages : pages[k] = p}) = 1

\* A load has completed and a reorder has moved the Page List away from the
\* identity order.
C1_Witness ==
  /\ \E k \in DOMAIN loads : loads[k].pc = "done"
  /\ Len(pages) = MaxPages
  /\ pages # Identity(Len(pages))
  /\ edits = MaxEdits

\* C2: a successful export offers a document with as many pages as the Page
\* List (of the render the export was clicked in) has entries, and its page
\* at position i is built from the raster (the crop override when there is
\* one) and the stored rotation angle of the page identifier at position i of
\* the Page List, not of identifier i.
C2_ExportFollowsPageList ==
  [][\A x \in DOMAIN exports :
       ExportSteps(x, "saved") =>
         LET e == exports[x]
             doc == downloads'[Len(downloads')] IN
         /\ Len(downloads') = Len(downloads) + 1
         /\ Len(doc) = Len(e.pages)
         /\ \A i \in 1..Len(e.pages) :
              LET p == e.pages[i]
                  override == At(e.croppedImages, p) IN
              /\ doc[i].image = IF IsPng(override) THEN override ELSE At(e.pageImages, p)
              /\ doc[i].rotate = Radians(At(e.rotationAngles, p))]_vars

\* The scenario of the claim: 3 pages, the last page moved to the first
\* position, identifier 0 rotated by 90, then exported: the document
\* offered has the pages of identifiers 2, 0, 1 and only that of 0 is rotated.
C2_Scenario ==
  /\ Len(downloads) = 1
  /\ downloads[1] = << [image |-> Png(3, 3, 0), rotate |-> <<"pi", 0, 180>>],
                       [image |-> Png(3, 1, 0), rotate |-> <<"pi", 90, 180>>],
                       [image |-> Png(3, 2, 0), rotate |-> <<"pi", 0, 180>>] >>

\* C3: export is all-or-nothing: a document is offered for download only in
\* the step in which an export has added every page of its Page List and
\* saved, and it is that complete document; an export that fails offers
\* nothing, in that step or later.
C3_ExportAllOrNothing ==
  [][/\ downloads' # downloads =>
          \E x \in DOMAIN exports :
            /\ ExportSteps(x, "saved")
            /\ \A i \in 0..(Len(exports[x].pages) - 1) : Embeddable(exports[x], i)
            /\ Len(downloads') = Len(downloads) + 1
            /\ SubSeq(downloads', 1, Len(downloads)) = downloads
            /\ Len(downloads'[Len(downloads')]) = Len(exports[x].pages)
     /\ \A x \in DOMAIN exports :
          /\ ExportSteps(x, "failed") => downloads' = downloads
          /\ exports[x].pc = "failed" => exports'[x].pc = "failed"]_vars

\* An export of a completely loaded document has failed and nothing was
\* offered for download.
C3_Witness ==
  /\ \E x \in DOMAIN exports : exports[x].pc = "failed"
  /\ \E k \in DOMAIN loads : loads[k].pc = "done"
  /\ Len(pageImages) = Len(pages)
  /\ downloads = <<>>

\* C4: a load that fails (in parsing, or in rendering the document or any of
\* its pages) has mutated no session state.
C4_FailedLoadMutatesNothing ==
  \A k \in DOMAIN loads : LoadFailed(loads[k]) => ~loads[k].wrote

\* C5: when a load completes successfully, no page identifier has a crop
\* override (the claim's statement about crop overrides).
C5_NoCropOverrideAfterLoad ==
  [][\A k \in DOMAIN loads :
       LoadSteps(k, "rendering", "done") =>
         \A q \in 0..MaxPages : ~IsPng(At(croppedImages', q))]_vars

\* C6: a successful load resets the selection: the step of the load that
\* installs the new document and resets the other session cells (lines
\* 24-28) leaves no page selected.
C6_LoadResetsSelection ==
  [][\A k \in DOMAIN loads :
       LoadSteps(k, "parsing", "rendering") => selectedPage' = NoPage]_vars

\* C7: for every pair of valid positions, a reorder from `from` to `to`
\* followed by the reorder from `to` back to `from` restores the Page List.
C7_ReorderRoundTrip ==
  \A from \in Positions : \A to \in Positions :
    Reorder(Reorder(pages, from, to), to, from) = pages

\* A reordered Page List of the largest document, on which some reorder
\* changes the order.
C7_Witness ==
  /\ Len(pages) = MaxPages
  /\ pages # Identity(Len(pages))
  /\ \E from \in Positions : \E to \in Positions : Reorder(pages, from, to) # pages

\* rotationAngles after four rotateSelectedPage(90) in a row.
FourTimes90(sel, angles) ==
  RotatedAngles(sel, RotatedAngles(sel, RotatedAngles(sel, RotatedAngles(sel, angles, 90), 90), 90), 90)

\* The selected page has a number as its stored angle.
SelectedAngleIsNumber == selectedPage # NoPage /\ IsNum(At(rotationAngles, selectedPage))

\* C8, as claimed: four rotate(90) in a row return the stored angle of the
\* selected page to the value it had before.
C8_FourRotationsRestoreAngle ==
  SelectedAngleIsNumber =>
    At(FourTimes90(selectedPage, rotationAngles), selectedPage) = At(rotationAngles, selectedPage)

\* C8, amended: four rotate(90) in a row leave the stored angle of the
\* selected page congruent modulo 360 to the value it had before: the same
\* value when that was not negative, and that value plus 360 when it was
\* negative.
C8_FourRotationsCongruent ==
  SelectedAngleIsNumber =>
    LET before == Val(At(rotationAngles, selectedPage))
        after == At(FourTimes90(selectedPage, rotationAngles), selectedPage) IN
    after = Num(IF before >= 0 THEN before ELSE before + 360)

\* rotate(-90) has left a negative angle stored for the selected page.
C8_Witness == SelectedAngleIsNumber /\ Val(At(rotationAngles, selectedPage)) < 0

\* C9: a crop on the selected page p changes only p's entries of the raster
\* cache and of the crop overrides; the entries of every other identifier,
\* the Page List and the rotation angles are unchanged.
C9_CropChangesOnlySelected ==
  [][CropClicked =>
       /\ \A q \in 0..MaxPages :
            q # selectedPage =>
              /\ At(pageImages', q) = At(pageImages, q)
              /\ At(croppedImages', q) = At(croppedImages, q)
       /\ pages' = pages
       /\ rotationAngles' = rotationAngles]_vars

\* A page of a document of several pages has been cropped, and another page
\* of it has a raster and no crop override.
C9_Witness ==
  /\ selectedPage # NoPage
  /\ IsPng(At(croppedImages, selectedPage))
  /\ \E q \in 0..(MaxPages - 1) :
       /\ q # selectedPage
       /\ IsPng(At(pageImages, q))
       /\ At(croppedImages, q) = Null

\* C10: with no page selected, rotate and crop are no-ops: rotateSelectedPage
\* returns the angles it was given, and no rotate or crop control exists to
\* be clicked, so no error is raised and nothing changes.
C10_NoSelectionNoOp ==
  selectedPage = NoPage =>
    /\ \A angle \in {90, -90} :
         RotatedAngles(selectedPage, rotationAngles, angle) = rotationAngles
    /\ ~ENABLED (\E angle \in {90, -90} : RotateClicked(angle))
    /\ ~ENABLED CropClicked

\* A document is completely loaded and no page is selected.
C10_Witness ==
  /\ selectedPage = NoPage
  /\ pdfDoc # NoDoc
  /\ Len(pageImages) = Len(pages)
  /\ \E k \in DOMAIN loads : loads[k].pc = "done"

\* C11: a drop without a destination (the drag was cancelled outside every
\* drop target) is ignored: whichever entry was dragged, the step leaves the
\* Page List and every other cell of the session as they were.
C11_CancelledDropIgnored ==
  [][\A from \in Positions : OnDragEnd(from, NoDestination) => UNCHANGED vars]_vars

\* A reordered Page List of several pages with a page selected, on which a
\* drop with a destination would change the order and a cancelled drop of
\* every entry can happen.
C11_Witness ==
  /\ Len(pages) = MaxPages
  /\ pages # Identity(Len(pages))
  /\ selectedPage # NoPage
  /\ \E from \in Positions : Reorder(pages, from, 0) # pages
  /\ \A from \in Positions : ENABLED OnDragEnd(from, NoDestination)

\* C12: a reorder never changes the selection: the identifier selected
\* before a drop is the one selected after it, and it is still an entry of
\* the Page List, wherever it now sits; the drop also leaves the rotation
\* angles, the raster cache and the crop overrides unchanged.
C12_ReorderKeepsSelection ==
  [][\A from \in Positions : \A to \in Positions :
       OnDragEnd(from, to) =>
         /\ selectedPage' = selectedPage
         /\ selectedPage # NoPage => \E k \in DOMAIN pages' : pages'[k] = selectedPage
         /\ rotationAngles' = rotationAngles
         /\ pageImages' = pageImages
         /\ croppedImages' = croppedImages]_vars

\* A page is selected and a reorder has moved it: it does not sit at the
\* position it had when the document was loaded.
C12_Witness ==
  /\ selectedPage # NoPage
  /\ At(pages, selectedPage) # selectedPage
  /\ \E k \in DOMAIN pages : pages[k] = selectedPage
  /\ edits > 0

\* C13: an export clicked while a load is in flight never builds a document
\* from the Page List of one load stage and the raster cache of another:
\* when its closure holds a raster (or crop override) for every entry of its
\* Page List, so that it can build a document, each of them is a raster of
\* the document that Page List was set up for.
C13_ExportSerializedBehindLoad ==
  [][(ExportClicked /\ \E k \in DOMAIN loads : LoadInFlight(loads[k])) =>
       LET e == exports'[Len(exports')] IN
       (\A i \in 0..(Len(e.pages) - 1) : Embeddable(e, i)) =>
         \A i \in 0..(Len(e.pages) - 1) : ImageUrl(e, i)[2] = pdfDoc]_vars

\* C14: the session leaves the Empty state only through a successfully
\* completed load: whenever no load is in flight, a document is installed
\* (export is possible, pages can be reordered and selected) only if some
\* load has finished successfully, the rendering of its pages included.
C14_LoadedOnlyByCompletedLoad ==
  (\A k \in DOMAIN loads : ~LoadInFlight(loads[k])) =>
    ((pdfDoc # NoDoc \/ pages # <<>>) => \E k \in DOMAIN loads : loads[k].pc = "done")

\* C15: for every pair of valid positions, the reorder from `from` to `to`
\* yields the Page List that has the identifier formerly at `from` at `to`,
\* the identifiers formerly between the two positions one place nearer to
\* `from`, and every identifier outside the two positions where it was.
C15_ReorderMovesOneEntry ==
  \A from \in Positions : \A to \in Positions :
    LET r == Reorder(pages, from, to) IN
    /\ Len(r) = Len(pages)
    /\ At(r, to) = At(pages, from)
    /\ \A k \in Positions :
         /\ (from < k /\ k <= to) => At(r, k - 1) = At(pages, k)
         /\ (to <= k /\ k < from) => At(r, k + 1) = At(pages, k)
         /\ (k < from /\ k < to) \/ (k > from /\ k > to) => At(r, k) = At(pages, k)

\* The Page List of the largest document after its first entry was moved to
\* the last position: every entry between the two positions has shifted.
C15_Witness ==
  /\ Len(pages) = MaxPages
  /\ pages = Reorder(Identity(MaxPages), 0, MaxPages - 1)
  /\ \A k \in 1..(MaxPages - 1) : At(pages, k - 1) = k
  /\ edits = 1

Congruent360(x, y) == \E n \in -4..4 : x = y + 360 * n

\* v is a number, an integer multiple of 90 between -360 and 360.
QuarterTurns(v) == IsNum(v) /\ \E n \in -3..3 : Val(v) = 90 * n

\* Going from angles to rotated, the entry of page sel has become the old
\* angle plus delta, reduced modulo 360, and no other entry has changed.
RotatedOne(sel, angles, rotated, delta) ==
  /\ QuarterTurns(At(rotated, sel))
  /\ Congruent360(Val(At(rotated, sel)), Val(At(angles, sel)) + delta)
  /\ Len(rotated) = Len(angles)
  /\ \A q \in 0..(Len(angles) - 1) : q # sel => At(rotated, q) = At(angles, q)

\* rotationAngles of a document of n pages after four rotate clicks, by d1,
\* d2, d3 and d4, on page sel since it was loaded.
FourRotations(n, sel, d1, d2, d3, d4) ==
  RotatedAngles(sel, RotatedAngles(sel, RotatedAngles(sel, RotatedAngles(sel,
    Fill(n, Num(0)), d1), d2), d3), d4)

\* C17: rotate by delta stores for the selected page an angle congruent
\* modulo 360 to its old angle plus delta and leaves the angle of every other
\* page unchanged, whichever multiple of 90 the old angle is; so every
\* stored angle is an integer multiple of 90, and after any four
\* rotate(90)/rotate(-90) since the load the angle of the page is congruent
\* modulo 360 to the sum of the four deltas.
C17_RotateAddsModulo360 ==
  /\ \A q \in 0..(Len(pages) - 1) : QuarterTurns(At(rotationAngles, q))
  /\ selectedPage # NoPage =>
       /\ \A n \in -3..3 : \A delta \in {90, -90} :
            LET angles == SetAt(rotationAngles, selectedPage, Num(90 * n)) IN
            RotatedOne(selectedPage, angles, RotatedAngles(selectedPage, angles, delta), delta)
       /\ \A d1 \in {90, -90} : \A d2 \in {90, -90} :
          \A d3 \in {90, -90} : \A d4 \in {90, -90} :
            LET angle == At(FourRotations(Len(pages), selectedPage, d1, d2, d3, d4),
                            selectedPage) IN
            /\ QuarterTurns(angle)
            /\ Congruent360(Val(angle), d1 + d2 + d3 + d4)

\* The selected page of a document of several pages was rotated twice by
\* -90, and no other page was rotated.
C17_Witness ==
  /\ selectedPage # NoPage
  /\ At(rotationAngles, selectedPage) = Num(-180)
  /\ Len(pages) = MaxPages
  /\ \A q \in 0..(Len(pages) - 1) : q # selectedPage => At(rotationAngles, q) = Num(0)

\* C18: rasters never leak across documents: once every chosen file has
\* been loaded successfully and no load is in flight, the raster cache
\* holds one raster per page of the most recently chosen file, in
\* page-number order, and every crop override is derived from that file.
C18_NoRasterLeak ==
  (loads # <<>> /\ \A k \in DOMAIN loads : loads[k].pc = "done") =>
    LET f == loads[Len(loads)].file IN
    /\ Len(pageImages) = PageCount(f)
    /\ \A p \in 0..(PageCount(f) - 1) :
         /\ IsPng(At(pageImages, p))
         /\ At(pageImages, p)[2] = f
         /\ At(pageImages, p)[3] = p + 1
    /\ \A p \in 0..(MaxPages - 1) :
         IsPng(At(croppedImages, p)) => At(croppedImages, p)[2] = f

\* C19: an export works on a snapshot: the click captures the Page List,
\* the rasters, the crop overrides and the rotation angles of that moment;
\* no step taken while the export is awaiting (reorder, rotate, crop, load)
\* changes what it captured; and the document it saves is the one built,
\* page by page, from what it captured.
C19_ExportWorksOnSnapshot ==
  [][/\ ExportClicked =>
          LET e == exports'[Len(exports')] IN
          /\ e.pages = pages
          /\ e.pageImages = pageImages
          /\ e.croppedImages = croppedImages
          /\ e.rotationAngles = rotationAngles
     /\ \A x \in DOMAIN exports :
          /\ (exports[x].pc = "running" /\ exports'[x].pc = "running") =>
               exports'[x] = exports[x]
          /\ ExportSteps(x, "saved") =>
               downloads' = Append(downloads, AddedPages(exports[x], Len(exports[x].pages)))]_vars

\* An export that can save is awaiting, and since its click the Page List
\* was reordered and a page was rotated.
C19_Witness ==
  \E x \in DOMAIN exports :
    /\ exports[x].pc = "running"
    /\ \A i \in 0..(Len(exports[x].pages) - 1) : Embeddable(exports[x], i)
    /\ Len(exports[x].pages) = Len(pages)
    /\ exports[x].pages # pages
    /\ exports[x].rotationAngles # rotationAngles

\* C20: the transform state stays sized to the loaded document: once every
\* chosen file has been loaded successfully and no load is in flight, the
\* rotation table and the crop-override table have exactly one entry per
\* page identifier of the installed document, and every rotation entry is a
\* number.
C20_TablesSizedToDocument ==
  (loads # <<>> /\ \A k \in DOMAIN loads : loads[k].pc = "done") =>
    /\ Len(rotationAngles) = PageCount(pdfDoc)
    /\ Len(croppedImages) = PageCount(pdfDoc)
    /\ \A p \in 0..(Len(rotationAngles) - 1) : IsNum(At(rotationAngles, p))

====
